---- MODULE Spec2Model ----
(***************************************************************************)
(* Model of the executable code of the CUQIpy demo notebooks.              *)
(*                                                                         *)
(* The notebooks are callers of the CUQIpy library: the samplers, the      *)
(* Samples class and the distributions they use (the cuqi.sampler,         *)
(* cuqi.samples and cuqi.distribution packages) are imported, not defined  *)
(* here.                                                                   *)
(* What the notebooks themselves compute is modelled below, starting with  *)
(* the construction of the piecewise-constant exact solution               *)
(* (Exercise05_PDE.ipynb, cell "n_steps = 3 ...", specification Spec).     *)
(***************************************************************************)
EXTENDS Integers, Sequences, FiniteSets, TLC

\* Largest number of grid nodes explored (the notebook uses N = 30).
MaxN == 7

\* Number of grid points kept of the plotting meshes (the notebook uses
\* m*n = 300*300 points for the pdf and ng*ng = 30*30 for the gradient).
GridPts == 2

\* Largest number of plot_pdf calls drawn on one figure.
MaxCalls == 5

VARIABLES
    N,                \* number of finite difference nodes
    n_steps,          \* number of pieces of the step function
    n_steps_values,   \* value of each piece, indexed 0 .. n_steps-1
    myExactSolution,  \* the array being filled, indexed 0 .. N-1
    start_idx,        \* first index of the slice written next
    end_idx,          \* one past the last index of the slice written last
    i,                \* loop variable of "for i in range(n_steps)"
    pc,               \* position in the cell: "loop" or "done"
    writes            \* history: how often each index of myExactSolution was assigned

loop_vars ==
    <<N, n_steps, n_steps_values, myExactSolution, start_idx, end_idx, i, pc, writes>>

\* CP01_HMC.ipynb: the notebook's globals and the current matplotlib axes.
VARIABLES
    donut,            \* the global name donut (a distribution)
    figure,           \* the artists drawn on the current axes, in drawing order
    last_call         \* history: the arguments of the last plot_pdf call

plot_vars == <<donut, figure, last_call>>

vars == <<loop_vars, plot_vars>>

\* round(a / b) in place of floor(a / b): the nearest index, not the one below.
floor_div_rounded(a, b) == (2 * a + b) \div (2 * b)

\* math.floor(a / b) for integers a >= 0, b > 0.  Python evaluates a / b in
\* double precision; for the magnitudes of a grid index the rounded quotient
\* has the same floor as the exact one.
floor_div(a, b) == a \div b

\* np.zeros(n): an array of n zeros, indexed from 0.
zeros(n) == [k \in 0 .. n - 1 |-> 0]

\* arr[lo:hi] = v with 0 <= lo: numpy clips the slice to the array, an empty
\* or reversed slice writes nothing.
slice_assign(arr, lo, hi, v) ==
    [k \in DOMAIN arr |-> IF lo <= k /\ k < hi THEN v ELSE arr[k]]

\* The assignment count after arr[lo:hi] = v: one more for every index the
\* slice covers.
slice_count(cnt, lo, hi) ==
    [k \in DOMAIN cnt |-> IF lo <= k /\ k < hi THEN cnt[k] + 1 ELSE cnt[k]]

\* No plot_pdf call has been made.
NoCall == [dist |-> "none", plot_grad |-> FALSE]

\* The state after "n_steps = ..; n_steps_values = [..]; myExactSolution =
\* np.zeros(N); start_idx = 0", before the first loop iteration.  end_idx is
\* not yet bound there; -1 stands for the unbound name.
Init ==
    /\ N \in 1 .. MaxN
    /\ n_steps \in 1 .. N
    /\ n_steps_values = [k \in 0 .. n_steps - 1 |-> k]
    /\ myExactSolution = zeros(N)
    /\ start_idx = 0
    /\ end_idx = -1
    /\ i = 0
    /\ pc = "loop"
    /\ writes = zeros(N)
    /\ donut = "unbound"
    /\ figure = <<>>
    /\ last_call = NoCall

\* One iteration of "for i in range(n_steps)".
LoopIter ==
    /\ pc = "loop"
    /\ i < n_steps
    /\ end_idx' = floor_div((i + 1) * N, n_steps)
    /\ myExactSolution' =
           slice_assign(myExactSolution, start_idx, end_idx', n_steps_values[i])
    /\ writes' = slice_count(writes, start_idx, end_idx')
    /\ start_idx' = end_idx'
    /\ i' = i + 1
    /\ UNCHANGED <<N, n_steps, n_steps_values, pc>>
    /\ UNCHANGED plot_vars

\* range(n_steps) is exhausted: the loop ends.
LoopExit ==
    /\ pc = "loop"
    /\ i = n_steps
    /\ pc' = "done"
    /\ UNCHANGED <<N, n_steps, n_steps_values, myExactSolution, start_idx, end_idx, i,
                   writes>>
    /\ UNCHANGED plot_vars

Next == LoopIter \/ LoopExit

Spec == Init /\ [][Next]_vars

TypeOK ==
    /\ N \in 1 .. MaxN
    /\ n_steps \in 1 .. N
    /\ i \in 0 .. n_steps
    /\ start_idx \in 0 .. N
    /\ end_idx \in -1 .. N
    /\ pc \in {"loop", "done"}
    /\ DOMAIN myExactSolution = 0 .. N - 1
    /\ DOMAIN writes = 0 .. N - 1

\* C29: the loop partitions the N indices into n_steps contiguous pieces.  No
\* slice ever ends past N, and once the loop has ended every index 0 .. N-1
\* has been assigned exactly once, piece p covers the indices
\* floor(p*N/n_steps) .. floor((p+1)*N/n_steps) - 1 and holds
\* n_steps_values[p], and the final end_idx is N.
C29_StepPartition ==
    /\ end_idx <= N
    /\ pc = "done" =>
         /\ end_idx = N
         /\ \A k \in 0 .. N - 1 : writes[k] = 1
         /\ \A p \in 0 .. n_steps - 1 :
                \A k \in 0 .. N - 1 :
                    ((p * N) \div n_steps <= k /\ k < ((p + 1) * N) \div n_steps)
                        => myExactSolution[k] = n_steps_values[p]
         /\ \A k \in 0 .. N - 1 :
                \E p \in 0 .. n_steps - 1 :
                    (p * N) \div n_steps <= k /\ k < ((p + 1) * N) \div n_steps

\* C29 witness: the loop has ended on a grid that three pieces do not divide
\* evenly.
C29_Witness ==
    /\ pc = "done"
    /\ n_steps = 3
    /\ N % n_steps # 0
    /\ i = n_steps

(***************************************************************************)
(* CP01_HMC.ipynb: plot_pdf(dist, plot_grad=False), specification          *)
(* SpecPlotPdf.                                                            *)
(***************************************************************************)

\* The 2-dimensional distributions a caller can pass; the notebook itself
\* only has the gallery's donut, the others stand for any other one.
Dists == {"donut", "banana", "funnel"}

\* The flattened mesh points pts and posg.
Pts == 1 .. GridPts

\* d.pdf(pts) and d.gradient(pts) are library calls: their values are kept
\* as the terms "pdf of d at p" and "gradient of d at p".
pdf(d, pts) == [p \in pts |-> <<"pdf", d, p>>]

gradient(d, pts) == [p \in pts |-> <<"gradient", d, p>>]

\* u, v = grad[0, :]/norm, grad[1, :]/norm: the normalised gradient.
unit(grad) == [p \in DOMAIN grad |-> <<"unit", grad[p]>>]

\* The number of plot_pdf calls drawn on a figure: each draws one contourf.
calls_drawn(fig) == Cardinality({k \in 1 .. Len(fig) : fig[k].kind = "contourf"})

\* The state after "donut = cuqi.distribution.DistributionGallery('donut')"
\* and the definition of plot_pdf; the names of Exercise05_PDE.ipynb do not
\* exist in this notebook.
InitPlotPdf ==
    /\ donut = "donut"
    /\ figure = <<>>
    /\ last_call = NoCall
    /\ N = 0
    /\ n_steps = 0
    /\ n_steps_values = <<>>
    /\ myExactSolution = <<>>
    /\ start_idx = 0
    /\ end_idx = -1
    /\ i = 0
    /\ pc = "absent"
    /\ writes = <<>>

\* One call plot_pdf(dist, plot_grad).  The body evaluates donut.pdf(pts) and
\* donut.gradient(posg): the name donut is the notebook's global, dist is
\* not used.
plot_pdf(dist, plot_grad) ==
    LET Z    == pdf(donut, Pts)
        grad == gradient(donut, Pts)
        uv   == unit(grad)
    IN  /\ pc = "absent"
        /\ calls_drawn(figure) < MaxCalls
        /\ figure' = figure
                      \o << [kind |-> "contourf", data |-> Z],
                            [kind |-> "contour", data |-> Z] >>
                      \o (IF plot_grad
                          THEN << [kind |-> "quiver", data |-> uv] >>
                          ELSE << >>)
        /\ last_call' = [dist |-> dist, plot_grad |-> plot_grad]
        /\ UNCHANGED donut
        /\ UNCHANGED loop_vars

\* plt.figure(figsize=(8, 8)): a new, empty current figure.
NewFigure ==
    /\ pc = "absent"
    /\ figure # <<>>
    /\ figure' = <<>>
    /\ UNCHANGED <<donut, last_call>>
    /\ UNCHANGED loop_vars

CallPlotPdf == \E dist \in Dists, plot_grad \in BOOLEAN : plot_pdf(dist, plot_grad)

NextPlotPdf == CallPlotPdf \/ NewFigure

SpecPlotPdf == InitPlotPdf /\ [][NextPlotPdf]_vars

\* The artists the last call drew: the last two, or the last three when the
\* call drew the gradient.
last_drawn(fig, plot_grad) ==
    LET n == IF plot_grad THEN 3 ELSE 2
    IN  SubSeq(fig, Len(fig) - n + 1, Len(fig))

\* C30 (as claimed): what plot_pdf draws is the pdf, and with plot_grad the
\* gradient, of the distribution passed as dist, whatever the global names
\* are bound to.
C30_PlotsArgument ==
    (last_call # NoCall /\ figure # <<>>) =>
        LET drawn == last_drawn(figure, last_call.plot_grad)
        IN  /\ drawn[1] = [kind |-> "contourf", data |-> pdf(last_call.dist, Pts)]
            /\ drawn[2] = [kind |-> "contour", data |-> pdf(last_call.dist, Pts)]
            /\ last_call.plot_grad =>
                   drawn[3] = [kind |-> "quiver",
                               data |-> unit(gradient(last_call.dist, Pts))]

====
